---- MODULE Spec2Model ----
(***************************************************************************)
(* Model of src/binary_parsers.py: the four sequential record scanners     *)
(* parse_hds, parse_cbb, parse_hdsu and parse_cbbu.                        *)
(*                                                                         *)
(* A file is a sequence of 4-byte words (fileWords) with a length in bytes *)
(* (fileLen); the last word may be partly present.  An i4 word is its      *)
(* integer, an f4 word is the identifier of its bit pattern, and the S16   *)
(* text field is four words, each standing for four characters (BlankWord  *)
(* is four spaces).  Labels are ASCII, so bytes.decode() never fails.      *)
(* A Python dict is a sequence of <<key, value>> pairs in insertion order. *)
(* A numpy array is [base, dtype, data]: base says whether the array owns  *)
(* its buffer ("own") or is a view into the memory map ("mmap").           *)
(***************************************************************************)
EXTENDS Integers, Sequences, FiniteSets, TLC

\* ---------------------------------------------------------------- bounds
MaxCells == 2
MaxGroups == 2
MaxLayers == 3
MaxNodes == 4
MaxCalls == 2

\* ------------------------------------------------------- numpy type widths
I4 == 4
F4 == 4
S16 == 16

BlankWord == 0

\* Offsets of the fields of the four record layouts, in bytes.
HdsMetaSize == I4 + I4 + F4 + F4 + S16 + I4 + I4 + I4
CbbMetaSize == I4 + I4 + S16 + I4 + I4 + I4

\* dt.itemsize of the four layouts; the Padded and Fixed forms are the
\* sizes of a layout with one padding word and of one with a fixed payload
HdsItemSizePadded(nrow, ncol) == HdsMetaSize + I4 + F4 * nrow * ncol
HdsItemSize(nrow, ncol) == HdsMetaSize + F4 * nrow * ncol

CbbItemSize(nlay, nrow, ncol) == CbbMetaSize + F4 * nlay * nrow * ncol

\* (NoHeader: the payload alone)
HdsuItemSizeNoHeader(n) == F4 * n
HdsuItemSize(n) == HdsMetaSize + F4 * n

CbbuItemSizeFixed(arr_size) == CbbMetaSize + F4
CbbuItemSize(arr_size) == CbbMetaSize + F4 * arr_size

\* ------------------------------------------------------------ Python values
None == "<None>"
NoItems == [none |-> TRUE, list |-> {}]
ItemList(S) == [none |-> FALSE, list |-> S]
\* truth value of `items`: None and the empty list are both false
Truthy(items) == ~items.none /\ items.list # {}

NoArray == [base |-> "unbound", dtype |-> "none", data |-> <<>>]
\* np.empty(0): an owned float64 array of length 0
EmptyArray == [base |-> "own", dtype |-> "f8", data |-> <<>>]

\* ndarray.copy(): same values and dtype in a buffer of its own
Copy(a) == [a EXCEPT !.base = "own"]

\* np.concatenate((h, d)): a new owned array; f8 with f4 promotes to f8, and
\* every f4 value is exactly representable, so the values are kept
\* (Reversed: the operands the other way round)
ConcatenateReversed(x, y) == [base |-> "own", dtype |-> "f8", data |-> y.data \o x.data]
Concatenate(x, y) == [base |-> "own", dtype |-> "f8", data |-> x.data \o y.data]

\* dict as a sequence of <<key, value>> in insertion order
RECURSIVE DictIndex(_, _, _)
DictIndex(d, k, i) ==
    IF i > Len(d) THEN 0
    ELSE IF d[i][1] = k THEN i
    ELSE DictIndex(d, k, i + 1)
DictHas(d, k) == DictIndex(d, k, 1) # 0
DictGet(d, k) == d[DictIndex(d, k, 1)][2]
DictKeys(d) == {d[i][1] : i \in 1..Len(d)}
DictSet(d, k, v) ==
    LET i == DictIndex(d, k, 1)
    IN  IF i = 0 THEN Append(d, <<k, v>>) ELSE [d EXCEPT ![i] = <<k, v>>]
\* d.setdefault(k, {})
SetDefault(d, k) == IF DictHas(d, k) THEN d ELSE Append(d, <<k, <<>>>>)

\* bytes.decode().strip() on a 16-byte text: leading and trailing blanks go
RECURSIVE LStrip(_)
LStrip(t) == IF t # <<>> /\ Head(t) = BlankWord THEN LStrip(Tail(t)) ELSE t
RECURSIVE RStrip(_)
RStrip(t) ==
    IF t # <<>> /\ t[Len(t)] = BlankWord THEN RStrip(SubSeq(t, 1, Len(t) - 1)) ELSE t
Strip(t) == RStrip(LStrip(t))

\* ------------------------------------------------------------ written files
\* What the simulator wrote: records with the fields of the four layouts.
\* s1, s2, s3 are the three shape integers of the layout:
\*   hds  ncol, nrow, ilay      cbb   ncol, nrow, nlay
\*   hdsu nstrt, nndlay, ilay   cbbu  nval, one, icode
HeadText == <<BlankWord, BlankWord, BlankWord, 9>>
BudgetTexts == {<<BlankWord, BlankWord, BlankWord, 1>>,
                <<BlankWord, 1, BlankWord, BlankWord>>,
                <<BlankWord, BlankWord, 2, BlankWord>>}
Keys == {<<1, 1>>, <<1, 2>>}
Dims == {d \in (1..MaxCells) \X (1..MaxCells) \X (1..MaxCells) :
            d[1] * d[2] * d[3] <= MaxCells}
SeqsUpTo(S, n) == UNION {[1..k -> S] : k \in 0..n}
\* time-step keys <<kper, kstp>> of the groups of a file, the first one <<1, 1>>
KeySeqs == {ks \in SeqsUpTo(Keys, MaxGroups) : Len(ks) > 0 => ks[1] = <<1, 1>>}

RECURSIVE Sum(_)
Sum(s) == IF s = <<>> THEN 0 ELSE Head(s) + Sum(Tail(s))
\* node counts of the layers of an unstructured grid
Profiles == {p \in SeqsUpTo(1..MaxNodes, MaxLayers) : Len(p) > 0 /\ Sum(p) <= MaxNodes}

Rec(kper, kstp, pertim, tot, text, s1, s2, s3, data) ==
    [kper |-> kper, kstp |-> kstp, pertim |-> pertim, totim |-> tot, text |-> text,
     s1 |-> s1, s2 |-> s2, s3 |-> s3, data |-> data]

\* one record per layer, nlay records per time step
HdsRecs(d, ks, skew) ==
    [idx \in 1..(Len(ks) * d[1]) |->
        LET g == ((idx - 1) \div d[1]) + 1
            i == ((idx - 1) % d[1]) + 1
        IN  Rec(ks[g][1], ks[g][2], g, 10 * g + skew * (i - 1), HeadText, d[3], d[2], i,
                [j \in 1..(d[2] * d[3]) |-> 100 * g + 10 * i + j])]
CbbRecs(d, ks, ts) ==
    [k \in 1..Len(ks) |->
        Rec(ks[k][1], ks[k][2], 0, 0, ts[k], d[3], d[2], d[1],
            [j \in 1..(d[1] * d[2] * d[3]) |-> 100 * k + j])]
HdsuRecs(p, ks) ==
    [idx \in 1..(Len(ks) * Len(p)) |->
        LET g == ((idx - 1) \div Len(p)) + 1
            i == ((idx - 1) % Len(p)) + 1
            nstrt == Sum(SubSeq(p, 1, i - 1)) + 1
        IN  Rec(ks[g][1], ks[g][2], g, 10 * g, HeadText, nstrt, nstrt + p[i] - 1, i,
                [j \in 1..p[i] |-> 100 * g + 10 * i + j])]
\* unstructured head records as some other writer may leave them: any layer
\* number and time-step key on each record, and a node range that may be
\* empty the wrong way round (nndlay < nstrt - 1)
HdsuLooseRecs(ks, ls, ns) ==
    [k \in 1..Len(ks) |->
        Rec(ks[k][1], ks[k][2], k, 10 * k, HeadText, ls[k], ls[k] + ns[k] - 1, ls[k],
            [j \in 1..ns[k] |-> 100 * k + 10 * ls[k] + j])]
CbbuRecs(ks, ts, ns) ==
    [k \in 1..Len(ks) |->
        Rec(ks[k][1], ks[k][2], 0, 0, ts[k], ns[k], 1, 1,
            [j \in 1..ns[k] |-> 100 * k + j])]

\* the bytes of one record, field after field with no padding
EncodeRec(fmt, r) ==
    IF fmt \in {"hds", "hdsu"}
    THEN <<r.kstp, r.kper, r.pertim, r.totim>> \o r.text \o <<r.s1, r.s2, r.s3>> \o r.data
    ELSE <<r.kstp, r.kper>> \o r.text \o <<r.s1, r.s2, r.s3>> \o r.data
RECURSIVE EncodeFile(_, _)
EncodeFile(fmt, rs) ==
    IF rs = <<>> THEN <<>> ELSE EncodeRec(fmt, Head(rs)) \o EncodeFile(fmt, Tail(rs))

Written ==
    {[fmt |-> "hds", dims |-> d, recs |-> HdsRecs(d, ks, skew)] :
        d \in Dims, ks \in KeySeqs, skew \in {0, 1}}
    \cup
    {[fmt |-> "cbb", dims |-> d, recs |-> CbbRecs(d, x[1], x[2])] :
        d \in Dims,
        x \in {y \in KeySeqs \X SeqsUpTo(BudgetTexts, MaxGroups) : Len(y[1]) = Len(y[2])}}
    \cup
    {[fmt |-> "hdsu", dims |-> <<Len(p), 1, Sum(p)>>, recs |-> HdsuRecs(p, ks)] :
        p \in Profiles, ks \in KeySeqs}
    \cup
    {[fmt |-> "hdsu", dims |-> <<1, 1, 1>>, recs |-> HdsuLooseRecs(x[1], x[2], x[3])] :
        x \in {y \in KeySeqs \X SeqsUpTo({1, 2}, MaxGroups) \X SeqsUpTo({1, -1}, MaxGroups) :
                  Len(y[1]) > 0 /\ Len(y[1]) = Len(y[2]) /\ Len(y[1]) = Len(y[3])}}
    \cup
    {[fmt |-> "cbbu", dims |-> <<1, 1, MaxCells>>, recs |-> CbbuRecs(x[1], x[2], x[3])] :
        x \in {y \in KeySeqs \X SeqsUpTo(BudgetTexts, MaxGroups)
                       \X SeqsUpTo({1, MaxCells}, MaxGroups) :
                  Len(y[1]) = Len(y[2]) /\ Len(y[1]) = Len(y[3])}}

\* The file on disk: as written (0), cut short by some bytes (< 0), or
\* followed by some bytes that are no record (> 0).
Damages == {0, -1, -16, 1}
DamagedWords(words, dmg) ==
    IF dmg >= 0
    THEN words \o [i \in 1..((dmg + 3) \div 4) |-> 7]
    ELSE SubSeq(words, 1, (4 * Len(words) + dmg + 3) \div 4)

\* -------------------------------------------------------------------- state
VARIABLES
    written,    \* what the simulator wrote (format, grid, records); never read by the decoders
    fileWords,  \* the words of the file at path "data"
    fileLen,    \* its size in bytes
    pc,         \* "idle", "loop", "read", "emit", "return", "raise"
    fn,         \* the decoder running: "hds", "cbb", "hdsu", "cbbu"
    args,       \* [file_path, nlay, nrow, ncol, items]
    file_size,  \* file_size (fSize in parse_cbbu)
    offset,     \* offset (ofst in parse_cbbu)
    hds, totim, \* parse_hds
    cbb,        \* parse_cbb
    HDS, h,     \* parse_hdsu
    BUD,        \* parse_cbbu
    meta,       \* the header probe of parse_hdsu / parse_cbbu
    data,       \* the full record of parse_cbbu
    exc,        \* the exception being raised
    io,         \* file-system accesses of the running call (getsize, memmap)
    ret,        \* what the last finished call gave its caller
    calls       \* calls made

file == <<written, fileWords, fileLen>>
frame == <<file_size, offset, hds, totim, cbb, HDS, h, BUD, meta, data, exc, io>>
vars == <<written, fileWords, fileLen, pc, fn, args, file_size, offset, hds, totim, cbb,
          HDS, h, BUD, meta, data, exc, io, ret, calls>>

NoMeta == [kstp |-> 0, kper |-> 0, nstrt |-> 0, nndlay |-> 0, ilay |-> 0, n |-> 0,
           arr_size |-> 0, at |-> -1]
NoData == [kstp |-> 0, kper |-> 0, text |-> <<>>, data |-> NoArray]
NoRet == [kind |-> "none", fn |-> "", args |-> <<>>, exc |-> "", value |-> <<>>]

Init ==
    /\ written \in Written
    /\ \E dmg \in Damages :
         LET words == EncodeFile(written.fmt, written.recs)
         IN  /\ 4 * Len(words) + dmg >= 0
             /\ fileWords = DamagedWords(words, dmg)
             /\ fileLen = 4 * Len(words) + dmg
    /\ pc = "idle"
    /\ fn = ""
    /\ args = [file_path |-> None, nlay |-> 0, nrow |-> 0, ncol |-> 0, items |-> NoItems]
    /\ file_size = 0
    /\ offset = 0
    /\ hds = <<>>
    /\ totim = <<>>
    /\ cbb = <<>>
    /\ HDS = <<>>
    /\ h = NoArray
    /\ BUD = <<>>
    /\ meta = NoMeta
    /\ data = NoData
    /\ exc = ""
    /\ io = 0
    /\ ret = NoRet
    /\ calls = 0

\* -------------------------------------------------------------- file access
PathExists(p) == p = "data"
\* os.path.getsize(p): "" when it succeeds
GetsizeError(p) ==
    IF p = None THEN "TypeError"
    ELSE IF ~PathExists(p) THEN "FileNotFoundError"
    ELSE ""
\* np.memmap(file_path, mode='r', dtype=dt, offset=off, shape=k) maps
\* nbytes = k * dt.itemsize bytes from off; mmap refuses a length that runs
\* past the end of the file (ValueError)
\* (WholeWords: a length check rounded up to the mapping granularity)
MemmapFitsWholeWords(off, nbytes) == off + nbytes <= 4 * Len(fileWords)
MemmapFits(off, nbytes) == off + nbytes <= fileLen
\* the 4-byte field at byte offset b of the file
Word(b) == fileWords[(b \div 4) + 1]
\* the 16-byte text field at byte offset b
TextAt(b) == <<Word(b), Word(b + I4), Word(b + 2 * I4), Word(b + 3 * I4)>>

\* field offsets of the head layouts (lines 36-46, 133-142, 152-162) and of
\* the budget layouts (lines 85-93, 197-204, 207-215)
HdsDt == [kstp |-> 0, kper |-> I4, pertim |-> I4 + I4, totim |-> I4 + I4 + F4,
          text |-> I4 + I4 + F4 + F4, s1 |-> I4 + I4 + F4 + F4 + S16,
          s2 |-> I4 + I4 + F4 + F4 + S16 + I4, s3 |-> I4 + I4 + F4 + F4 + S16 + I4 + I4,
          data |-> HdsMetaSize]
CbbDt == [kstp |-> 0, kper |-> I4, text |-> I4 + I4, s1 |-> I4 + I4 + S16,
          s2 |-> I4 + I4 + S16 + I4, s3 |-> I4 + I4 + S16 + I4 + I4,
          data |-> CbbMetaSize]

\* a view of k f4 values at byte offset b
View1(b, k) == [base |-> "mmap", dtype |-> "f4", data |-> [j \in 1..k |-> Word(b + F4 * (j - 1))]]
\* arr['data'] of parse_hds: shape (nlay, nrow, ncol), one record of stride
\* itemsize per layer, each holding nrow x ncol values in row-major order
HdsData(off, nlay, nrow, ncol, itemsize) ==
    [base |-> "mmap", dtype |-> "f4",
     data |-> [l \in 1..nlay |-> [r \in 1..nrow |-> [c \in 1..ncol |->
                Word(off + (l - 1) * itemsize + HdsDt.data
                     + F4 * ((r - 1) * ncol + (c - 1)))]]]]
\* arr['data'] of parse_cbb: shape (nlay, nrow, ncol) inside one record
CbbData(off, nlay, nrow, ncol) ==
    [base |-> "mmap", dtype |-> "f4",
     data |-> [l \in 1..nlay |-> [r \in 1..nrow |-> [c \in 1..ncol |->
                Word(off + CbbDt.data
                     + F4 * (((l - 1) * nrow + (r - 1)) * ncol + (c - 1)))]]]]

\* -------------------------------------------------------------- the callers
Args(path, nlay, nrow, ncol, items) ==
    [file_path |-> path, nlay |-> nlay, nrow |-> nrow, ncol |-> ncol, items |-> items]
ItemChoices ==
    {NoItems} \cup {ItemList(S) : S \in {{}, {<<1>>}, {<<2>>, <<3>>}}}
GoodArgs == Args("data", written.dims[1], written.dims[2], written.dims[3], NoItems)
HdsArgs ==
    {GoodArgs}
    \cup {[GoodArgs EXCEPT !.file_path = p] : p \in {None, "", "missing"}}
    \cup {[GoodArgs EXCEPT !.nlay = 0], [GoodArgs EXCEPT !.nrow = 0],
          [GoodArgs EXCEPT !.ncol = 0], [GoodArgs EXCEPT !.file_path = "missing", !.nrow = 0]}
    \cup {[GoodArgs EXCEPT !.nrow = written.dims[3], !.ncol = written.dims[2]]}
CbbArgs ==
    {[GoodArgs EXCEPT !.items = it] : it \in ItemChoices}
    \cup {[GoodArgs EXCEPT !.file_path = p] : p \in {None, "", "missing"}}
    \cup {[GoodArgs EXCEPT !.nlay = 0], [GoodArgs EXCEPT !.nrow = 0],
          [GoodArgs EXCEPT !.ncol = 0]}
    \cup {[GoodArgs EXCEPT !.nrow = written.dims[3], !.ncol = written.dims[2]]}
HdsuArgs ==
    {Args(p, 0, 0, 0, NoItems) : p \in {"data", "missing"}}
CbbuArgs ==
    {Args("data", 0, 0, 0, it) : it \in ItemChoices}
    \cup {Args("missing", 0, 0, 0, NoItems)}
\* a caller whose decode returned decodes the same file with the same grid again
SameFile(a) ==
    calls > 0 =>
        /\ ret.kind = "value"
        /\ a.file_path = ret.args.file_path
        /\ a.nlay = ret.args.nlay /\ a.nrow = ret.args.nrow /\ a.ncol = ret.args.ncol

\* lines 33-34, 83, 131, 195: each call binds a new empty dict or list (Shared:
\* the object of the call before, as a default argument would be)
FreshShared(old) == old
Fresh(old) == <<>>

\* a call starts on its own locals, whatever the call before left behind
Enter(f, a) ==
    /\ pc = "idle"
    /\ calls < MaxCalls
    /\ written.fmt = f
    /\ SameFile(a)
    /\ fn' = f
    /\ args' = a
    /\ calls' = calls + 1
    /\ offset' = 0
    /\ hds' = Fresh(hds) /\ totim' = Fresh(totim) /\ cbb' = Fresh(cbb)
    /\ HDS' = Fresh(HDS) /\ BUD' = Fresh(BUD)
    /\ h' = NoArray /\ meta' = NoMeta /\ data' = NoData
    /\ UNCHANGED <<written, fileWords, fileLen, ret>>

\* file_size = os.path.getsize(file_path)
Getsize(a) ==
    /\ io' = 1
    /\ IF GetsizeError(a.file_path) # ""
       THEN pc' = "raise" /\ exc' = GetsizeError(a.file_path) /\ file_size' = 0
       ELSE pc' = "loop" /\ exc' = "" /\ file_size' = fileLen

Fail(e) ==
    /\ pc' = "raise"
    /\ exc' = e

\* ---------------------------------------------------------------- parse_hds
\* line 29
HdsShortCircuit(file_path, nlay, nrow, ncol) ==
    file_path = None \/ nlay = 0 \/ nrow = 0 \/ ncol = 0

\* lines 29-34: up to the loop head
parse_hds(a) ==
    /\ Enter("hds", a)
    /\ IF HdsShortCircuit(a.file_path, a.nlay, a.nrow, a.ncol)
       THEN pc' = "return" /\ exc' = "" /\ io' = 0 /\ file_size' = 0
       ELSE Getsize(a)

\* which element of arr gives the time-step key and totim: arr[...][0], the
\* first layer (Last: the last one)
HdsKeyLayerLast(nlay) == nlay - 1
HdsKeyLayer(nlay) == 0

\* lines 35-52: one iteration, nlay records
parse_hds_loop ==
    /\ pc = "loop" /\ fn = "hds"
    /\ offset < file_size
    /\ LET itemsize == HdsItemSize(args.nrow, args.ncol)
           first == offset + HdsKeyLayer(args.nlay) * itemsize
       IN  /\ io' = io + 1
           /\ IF ~MemmapFits(offset, itemsize * args.nlay)
              THEN Fail("ValueError") /\ UNCHANGED <<offset, hds, totim>>
              ELSE /\ offset' = offset + itemsize * args.nlay
                   /\ hds' = DictSet(hds, <<Word(first + HdsDt.kper), Word(first + HdsDt.kstp)>>,
                                     Copy(HdsData(offset, args.nlay, args.nrow, args.ncol,
                                                  itemsize)))
                   /\ totim' = Append(totim, Word(first + HdsDt.totim))
                   /\ UNCHANGED <<pc, exc>>
    /\ UNCHANGED <<file, fn, args, file_size, cbb, HDS, h, BUD, meta, data, ret, calls>>

\* ---------------------------------------------------------------- parse_cbb
\* lines 99-105 and 221-225: `if items and text in items` stores, `elif not
\* items` stores, anything else is skipped
Retained(items, text) == (Truthy(items) /\ text \in items.list) \/ ~Truthy(items)

\* lines 81-83
parse_cbb(a) ==
    /\ Enter("cbb", a)
    /\ Getsize(a)

\* lines 84-105
parse_cbb_loop ==
    /\ pc = "loop" /\ fn = "cbb"
    /\ offset < file_size
    /\ LET itemsize == CbbItemSize(args.nlay, args.nrow, args.ncol)
           text == Strip(TextAt(offset + CbbDt.text))
           key == <<Word(offset + CbbDt.kper), Word(offset + CbbDt.kstp)>>
           withText == SetDefault(cbb, text)
       IN  /\ io' = io + 1
           /\ IF ~MemmapFits(offset, itemsize)
              THEN Fail("ValueError") /\ UNCHANGED <<offset, cbb>>
              ELSE /\ offset' = offset + itemsize
                   /\ cbb' = IF Retained(args.items, text)
                             THEN DictSet(withText, text,
                                          DictSet(DictGet(withText, text), key,
                                                  Copy(CbbData(offset, args.nlay, args.nrow,
                                                               args.ncol))))
                             ELSE cbb
                   /\ UNCHANGED <<pc, exc>>
    /\ UNCHANGED <<file, fn, args, file_size, hds, totim, HDS, h, BUD, meta, data, ret, calls>>

\* --------------------------------------------------------------- parse_hdsu
\* lines 129-131
parse_hdsu(a) ==
    /\ Enter("hdsu", a)
    /\ Getsize(a)

\* line 149: the accumulator starts again at the first layer
StartsGroupAlways(ilay) == TRUE
StartsGroup(ilay) == ilay = 1
\* line 151
NodeCount(nstrt, nndlay) == nndlay - nstrt + 1

\* lines 132-151: the header probe
parse_hdsu_probe ==
    /\ pc = "loop" /\ fn = "hdsu"
    /\ offset < file_size
    /\ io' = io + 1
    /\ IF ~MemmapFits(offset, HdsMetaSize)
       THEN Fail("ValueError") /\ UNCHANGED <<meta, h>>
       ELSE /\ meta' = [NoMeta EXCEPT
                          !.kstp = Word(offset + HdsDt.kstp),
                          !.kper = Word(offset + HdsDt.kper),
                          !.nstrt = Word(offset + HdsDt.s1),
                          !.nndlay = Word(offset + HdsDt.s2),
                          !.ilay = Word(offset + HdsDt.s3),
                          !.n = NodeCount(Word(offset + HdsDt.s1), Word(offset + HdsDt.s2)),
                          !.at = offset]
            /\ h' = IF StartsGroup(Word(offset + HdsDt.s3)) THEN EmptyArray ELSE h
            /\ pc' = "read"
            /\ exc' = ""
    /\ UNCHANGED <<file, fn, args, file_size, offset, hds, totim, cbb, HDS, BUD, data, ret,
                   calls>>

\* what line 166 stores under the key: the accumulator (Segment: only the
\* record's own payload)
HdsuStoredSegment(acc, seg) == Copy(seg)
HdsuStored(acc, seg) == acc

\* lines 152-166: the full record, the accumulation and the store
parse_hdsu_read ==
    /\ pc = "read" /\ fn = "hdsu"
    /\ io' = IF meta.n < 0 THEN io ELSE io + 1
    /\ IF meta.n < 0 \/ ~MemmapFits(offset, HdsuItemSize(meta.n))
       THEN Fail("ValueError") /\ UNCHANGED <<offset, h, HDS>>
       ELSE IF h.base = "unbound"
       THEN Fail("UnboundLocalError") /\ UNCHANGED <<offset, h, HDS>>
       ELSE LET acc == Concatenate(h, View1(offset + HdsDt.data, meta.n))
            IN  /\ h' = acc
                /\ offset' = offset + HdsuItemSize(meta.n)
                /\ HDS' = DictSet(HDS, <<meta.kper, meta.kstp>>,
                                  HdsuStored(acc, View1(offset + HdsDt.data, meta.n)))
                /\ pc' = "loop"
                /\ exc' = ""
    /\ UNCHANGED <<file, fn, args, file_size, hds, totim, cbb, BUD, meta, data, ret, calls>>

\* --------------------------------------------------------------- parse_cbbu
\* lines 192-195
parse_cbbu(a) ==
    /\ Enter("cbbu", a)
    /\ Getsize(a)

\* lines 196-206: the header probe gives the node count of this record
parse_cbbu_probe ==
    /\ pc = "loop" /\ fn = "cbbu"
    /\ offset < file_size
    /\ io' = io + 1
    /\ IF ~MemmapFits(offset, CbbMetaSize)
       THEN Fail("ValueError") /\ UNCHANGED meta
       ELSE /\ meta' = [NoMeta EXCEPT !.arr_size = Word(offset + CbbDt.s1), !.at = offset]
            /\ pc' = "read"
            /\ exc' = ""
    /\ UNCHANGED <<file, fn, args, file_size, offset, hds, totim, cbb, HDS, h, BUD, data, ret,
                   calls>>

\* lines 207-217: the full record, sized by the probe
parse_cbbu_read ==
    /\ pc = "read" /\ fn = "cbbu"
    /\ io' = IF meta.arr_size < 0 THEN io ELSE io + 1
    /\ IF meta.arr_size < 0 \/ ~MemmapFits(offset, CbbuItemSize(meta.arr_size))
       THEN Fail("ValueError") /\ UNCHANGED <<offset, data>>
       ELSE /\ data' = [kstp |-> Word(offset + CbbDt.kstp),
                        kper |-> Word(offset + CbbDt.kper),
                        text |-> TextAt(offset + CbbDt.text),
                        data |-> View1(offset + CbbDt.data, meta.arr_size)]
            /\ offset' = offset + CbbuItemSize(meta.arr_size)
            /\ pc' = "emit"
            /\ exc' = ""
    /\ UNCHANGED <<file, fn, args, file_size, hds, totim, cbb, HDS, h, BUD, meta, ret, calls>>

\* lines 220, 224: the key of a retained record (NoSize: leaves the node
\* count out of the identity)
CbbuKeyNoSize(text, arr_size, kper, kstp) == <<text, 0, kper, kstp>>
CbbuKey(text, arr_size, kper, kstp) == <<text, arr_size, kper, kstp>>

\* lines 218-225: the record is stored or skipped
parse_cbbu_emit ==
    /\ pc = "emit" /\ fn = "cbbu"
    /\ LET text == Strip(data.text)
       IN  BUD' = IF Retained(args.items, text)
                  THEN DictSet(BUD, CbbuKey(text, meta.arr_size, data.kper, data.kstp),
                               data.data)
                  ELSE BUD
    /\ pc' = "loop"
    /\ UNCHANGED <<file, fn, args, file_size, offset, hds, totim, cbb, HDS, h, meta, data, exc,
                   io, ret, calls>>

\* ------------------------------------------------------- leaving the decoder
\* lines 35, 84, 132, 196: the loop condition fails
loop_exit ==
    /\ pc = "loop"
    /\ ~(offset < file_size)
    /\ pc' = "return"
    /\ UNCHANGED <<file, fn, args, frame, ret, calls>>

\* lines 30, 53, 107, 167, 227
ReturnValue ==
    CASE fn = "hds" -> <<hds, totim>>
      [] fn = "cbb" -> <<cbb>>
      [] fn = "hdsu" -> <<HDS>>
      [] fn = "cbbu" -> <<BUD>>

\* control is back in the caller; nothing of the call is touched
Leave ==
    /\ pc' = "idle"
    /\ fn' = ""
    /\ args' = Args(None, 0, 0, 0, NoItems)
    /\ UNCHANGED <<file, frame, calls>>

Return ==
    /\ pc = "return"
    /\ ret' = [kind |-> "value", fn |-> fn, args |-> args, exc |-> "", value |-> ReturnValue]
    /\ Leave

\* an exception leaves the call with no value
Raise ==
    /\ pc = "raise"
    /\ ret' = [kind |-> "raise", fn |-> fn, args |-> args, exc |-> exc, value |-> <<>>]
    /\ Leave

Next ==
    \/ \E a \in HdsArgs : parse_hds(a)
    \/ parse_hds_loop
    \/ \E a \in CbbArgs : parse_cbb(a)
    \/ parse_cbb_loop
    \/ \E a \in HdsuArgs : parse_hdsu(a)
    \/ parse_hdsu_probe
    \/ parse_hdsu_read
    \/ \E a \in CbbuArgs : parse_cbbu(a)
    \/ parse_cbbu_probe
    \/ parse_cbbu_read
    \/ parse_cbbu_emit
    \/ loop_exit
    \/ Return
    \/ Raise

Spec == Init /\ [][Next]_vars

\* a call is one thread of straight-line Python: a step that can be taken is taken
FairSpec == Spec /\ WF_vars(Next)

\* ------------------------------------------------- what the file was written as
NRecs == Len(written.recs)
\* byte offset of record k of the written file; StartOf(NRecs + 1) is its end
StartOf(k) == 4 * Len(EncodeFile(written.fmt, SubSeq(written.recs, 1, k - 1)))
RecordStarts == {StartOf(k) : k \in 1..NRecs}
WrittenSize == StartOf(NRecs + 1)
\* records per time step of a head file, and its time steps
PerGroup == IF written.fmt \in {"hds", "hdsu"} THEN written.dims[1] ELSE 1
NGroups == NRecs \div PerGroup
GroupRec(g, i) == written.recs[(g - 1) * PerGroup + i]
GroupKey(g) == <<GroupRec(g, 1).kper, GroupRec(g, 1).kstp>>
LastWithKey(g) == \A g2 \in (g + 1)..NGroups : GroupKey(g2) # GroupKey(g)
\* the call reads the file that was written, with the grid it was written for
Scanning == fn # "" /\ io >= 1 /\ args.file_path = "data"
DimsMatch == fn \in {"hds", "cbb"} => <<args.nlay, args.nrow, args.ncol>> = written.dims
\* the layer records of an unstructured head file come as 1..k in every time
\* step, each with at least one node
RegularLayers ==
    written.fmt = "hdsu" =>
        \A k \in 1..NRecs :
            /\ written.recs[k].s3 = ((k - 1) % PerGroup) + 1
            /\ written.recs[k].s2 >= written.recs[k].s1
ValidFile == fileLen = WrittenSize /\ RegularLayers

\* C1: on a valid file, for each of the four decoders and any allow-list, the
\* scan starts at offset 0, every loop head is at the start of a record or at
\* the end of the file, no read fails, and when the loop has exited the offset
\* (the sum of the bytes consumed) equals the file size exactly.
C1_ScanEndsAtFileSize ==
    (Scanning /\ DimsMatch /\ ValidFile) =>
        /\ pc # "raise"
        /\ (pc = "loop" /\ io = 1) => offset = 0
        /\ pc = "loop" => offset \in RecordStarts \cup {WrittenSize}
        /\ pc = "return" => offset = file_size /\ file_size = fileLen
C1_Witness ==
    /\ Scanning /\ DimsMatch /\ ValidFile
    /\ pc = "return" /\ fn = "cbbu" /\ Truthy(args.items)
    /\ NRecs = MaxGroups
    /\ offset = file_size /\ file_size > 0

\* the payloads of layers 1..k of time step g, in layer order
RECURSIVE LayersConcat(_, _)
LayersConcat(g, k) == IF k = 0 THEN <<>> ELSE LayersConcat(g, k - 1) \o GroupRec(g, k).data

\* C2: when parse_hdsu returns, the array stored under each time-step key is
\* the payloads of that time step's layer records (the last time step written
\* with that key) concatenated in increasing layer order, so its length is the
\* sum of the layers' node counts.
C2_HdsuReassembly ==
    (pc = "return" /\ fn = "hdsu" /\ RegularLayers) =>
        \A g \in 1..NGroups :
            LastWithKey(g) =>
                /\ DictHas(HDS, GroupKey(g))
                /\ DictGet(HDS, GroupKey(g)).data = LayersConcat(g, PerGroup)
                /\ Len(DictGet(HDS, GroupKey(g)).data)
                     = Sum([i \in 1..PerGroup |-> GroupRec(g, i).s2 - GroupRec(g, i).s1 + 1])
C2_Witness ==
    /\ pc = "return" /\ fn = "hdsu"
    /\ PerGroup = MaxLayers
    /\ NGroups >= 1
    /\ Len(DictGet(HDS, GroupKey(NGroups)).data) >= MaxLayers

\* the labels of a budget result, and a budget result cut down to some labels
Labels(f, result) ==
    IF f = "cbb" THEN DictKeys(result) ELSE {k[1] : k \in DictKeys(result)}
Restrict(f, result, S) ==
    IF f = "cbb"
    THEN SelectSeq(result, LAMBDA e : e[1] \in S)
    ELSE SelectSeq(result, LAMBDA e : e[1][1] \in S)

\* C3 (as claimed): a budget file decoded unfiltered and then again with an
\* allow-list that is a strict subset of the labels present gives a filtered
\* result whose labels are exactly the present labels in the allow-list, and
\* which is the unfiltered result restricted to those labels.
C3_AllowListFilter ==
    (/\ pc = "return" /\ fn \in {"cbb", "cbbu"}
     /\ ret.kind = "value" /\ ret.args.items.none
     /\ ~args.items.none
     /\ args.items.list \subseteq Labels(fn, ret.value[1])
     /\ args.items.list # Labels(fn, ret.value[1]))
    => /\ Labels(fn, ReturnValue[1]) = Labels(fn, ret.value[1]) \cap args.items.list
       /\ ReturnValue[1] = Restrict(fn, ret.value[1], args.items.list)

\* C4: a structured head file written from known (L, R, C), keys and payloads
\* decodes to a mapping keyed by (kper, kstp) whose (L, R, C) arrays hold the
\* written values, cell for cell, and to a sequence holding the first layer's
\* totim of each time step in file order.
C4_HdsRoundTrip ==
    (pc = "return" /\ fn = "hds" /\ Scanning /\ DimsMatch /\ ValidFile) =>
        /\ DictKeys(hds) = {GroupKey(g) : g \in 1..NGroups}
        /\ \A g \in 1..NGroups :
             LastWithKey(g) =>
                /\ DictGet(hds, GroupKey(g)).dtype = "f4"
                /\ DictGet(hds, GroupKey(g)).data =
                     [l \in 1..args.nlay |-> [r \in 1..args.nrow |-> [c \in 1..args.ncol |->
                        GroupRec(g, l).data[(r - 1) * args.ncol + c]]]]
        /\ totim = [g \in 1..NGroups |-> GroupRec(g, 1).totim]
C4_Witness ==
    /\ pc = "return" /\ fn = "hds" /\ Scanning /\ DimsMatch /\ ValidFile
    /\ NGroups = MaxGroups /\ PerGroup >= 2
    /\ Len(hds) = NGroups
    /\ GroupRec(1, 2).totim # GroupRec(1, 1).totim
    /\ Len(totim) = NGroups

\* the file ends inside a record or after bytes that are no record
Malformed == fileLen \notin RecordStarts \cup {WrittenSize}

\* C5: when the size of the file is not a record boundary (cut short inside a
\* record, or followed by bytes that are no record), a decoder called with the
\* file's grid never reaches its return: it raises ValueError, and its caller
\* gets the exception and no mapping.
C5_MalformedFails ==
    /\ (Scanning /\ DimsMatch /\ Malformed) =>
          /\ pc # "return"
          /\ (pc = "raise" /\ RegularLayers) => exc = "ValueError"
    /\ (/\ ret.kind # "none" /\ ret.args.file_path = "data" /\ Malformed
        /\ ret.fn \in {"hds", "cbb"} =>
              <<ret.args.nlay, ret.args.nrow, ret.args.ncol>> = written.dims) =>
          /\ ret.kind = "raise" /\ ret.value = <<>>
          /\ RegularLayers => ret.exc = "ValueError"
C5_Witness ==
    /\ fileLen = WrittenSize - 1
    /\ ret.kind = "raise" /\ ret.exc = "ValueError" /\ ret.fn = "hdsu"
    /\ NRecs >= 2

\* C6 (as claimed): parse_hds called with a null or empty path, or with a zero
\* nlay, nrow or ncol, returns an empty mapping and an empty time array and
\* touches no file.
C6_ShortCircuit ==
    (/\ fn = "hds"
     /\ \/ args.file_path \in {None, ""}
        \/ args.nlay = 0 \/ args.nrow = 0 \/ args.ncol = 0)
    => pc = "return" /\ hds = <<>> /\ totim = <<>> /\ io = 0

\* the arrays held by the four result dictionaries
StoredArrays ==
    {hds[i][2] : i \in 1..Len(hds)}
    \cup UNION {{cbb[i][2][j][2] : j \in 1..Len(cbb[i][2])} : i \in 1..Len(cbb)}
    \cup {HDS[i][2] : i \in 1..Len(HDS)}
    \cup {BUD[i][2] : i \in 1..Len(BUD)}

\* C7 (as claimed): every array stored in a result of any decoder owns its
\* buffer and is no view into the memory-mapped file.
C7_StoredArraysOwned == \A a \in StoredArrays : a.base = "own"

\* C8 (as claimed): parse_hds returns as many total times as dictionary
\* entries, the i-th being the totim of the i-th key, for every file, also
\* one in which a (kper, kstp) key heads more than one time step.
C8_TotimMatchesDict ==
    (pc = "return" /\ fn = "hds") =>
        /\ Len(totim) = Len(hds)
        /\ (Scanning /\ DimsMatch /\ ValidFile) =>
              \A i \in 1..Len(totim) :
                 /\ i <= Len(hds)
                 /\ \E g \in 1..NGroups :
                       GroupKey(g) = hds[i][1] /\ totim[i] = GroupRec(g, 1).totim

\* C9: every parse_hdsu record that is read publishes the fold so far: after
\* the record of layer i the value under its key is the accumulator, which is
\* the payloads of layers 1..i of its time step; it differs from the value
\* stored before, and for i > 1 the value before was the layers 1..i-1.
C9_HdsuPublishesEveryLayer ==
    [][(pc = "read" /\ fn = "hdsu" /\ pc' = "loop" /\ RegularLayers) =>
         \E k \in 1..NRecs :
            /\ StartOf(k) = offset
            /\ LET g == ((k - 1) \div PerGroup) + 1
                   i == ((k - 1) % PerGroup) + 1
                   key == <<written.recs[k].kper, written.recs[k].kstp>>
               IN  /\ DictGet(HDS', key) = h'
                   /\ h'.data = LayersConcat(g, i)
                   /\ DictHas(HDS, key) => DictGet(HDS', key) # DictGet(HDS, key)
                   /\ i > 1 => DictGet(HDS, key).data = LayersConcat(g, i - 1)]_vars
C9_Witness ==
    /\ pc = "loop" /\ fn = "hdsu"
    /\ meta.ilay >= 2 /\ meta.ilay < PerGroup
    /\ DictGet(HDS, <<meta.kper, meta.kstp>>) = h
    /\ Len(h.data) >= 2

\* C10: parse_cbbu moves its offset only in the read that follows a probe of
\* the header at that same offset, by 36 + 4 * nval bytes for the nval that
\* record was written with, and then goes on to the emit, whether the
\* allow-list keeps the record or not.
C10_CbbuProbedAdvance ==
    [][(fn = "cbbu" /\ fn' = "cbbu" /\ offset' # offset) =>
         /\ pc = "read" /\ pc' = "emit"
         /\ meta.at = offset
         /\ \E k \in 1..NRecs :
               /\ StartOf(k) = offset
               /\ meta.arr_size = written.recs[k].s1
               /\ offset' = offset + 36 + 4 * written.recs[k].s1]_vars
C10_Witness ==
    /\ pc = "emit" /\ fn = "cbbu"
    /\ ~Retained(args.items, Strip(data.text))
    /\ meta.arr_size = MaxCells
    /\ offset = meta.at + 36 + 4 * meta.arr_size

\* the records of a node-list budget file that the allow-list retains, and the
\* key each is stored under
KeptRecs == {k \in 1..NRecs : Retained(args.items, Strip(written.recs[k].text))}
WrittenKey(k) ==
    <<Strip(written.recs[k].text), written.recs[k].s1, written.recs[k].kper,
      written.recs[k].kstp>>

\* C11: the result of parse_cbbu maps (trimmed label, nval, kper, kstp) to a
\* one-dimensional array of nval values: every stored array is as long as the
\* nval in its key, and on a file as written each retained record is found
\* under its own key, which holds the payload of the last record written
\* with that very key, so two retained records with the same label and time
\* step and different nval are two entries and neither overwrites the other.
C11_CbbuIdentity ==
    /\ \A i \in 1..Len(BUD) :
          /\ Len(BUD[i][2].data) = BUD[i][1][2]
          /\ BUD[i][1][1] = Strip(BUD[i][1][1])
    /\ (pc = "return" /\ fn = "cbbu" /\ Scanning /\ ValidFile) =>
          /\ DictKeys(BUD) = {WrittenKey(k) : k \in KeptRecs}
          /\ \A k \in KeptRecs :
                (\A k2 \in KeptRecs : k2 > k => WrittenKey(k2) # WrittenKey(k)) =>
                    DictGet(BUD, WrittenKey(k)).data = written.recs[k].data
          /\ \A k, k2 \in KeptRecs :
                written.recs[k].s1 # written.recs[k2].s1 =>
                    /\ DictHas(BUD, WrittenKey(k)) /\ DictHas(BUD, WrittenKey(k2))
                    /\ DictIndex(BUD, WrittenKey(k), 1) # DictIndex(BUD, WrittenKey(k2), 1)
C11_Witness ==
    /\ pc = "return" /\ fn = "cbbu" /\ Scanning /\ ValidFile
    /\ \E i, j \in 1..Len(BUD) :
          /\ BUD[i][1][1] = BUD[j][1][1]
          /\ BUD[i][1][3] = BUD[j][1][3] /\ BUD[i][1][4] = BUD[j][1][4]
          /\ BUD[i][1][2] = 1 /\ BUD[j][1][2] = MaxCells
          /\ Len(BUD[i][2].data) = 1 /\ Len(BUD[j][2].data) = MaxCells

\* C12 (as claimed): parse_cbb called with a null or empty path, or with a
\* zero nlay, nrow or ncol, returns an empty mapping and touches no file, as
\* parse_hds does.
C12_CbbShortCircuit ==
    (/\ fn = "cbb"
     /\ \/ args.file_path \in {None, ""}
        \/ args.nlay = 0 \/ args.nrow = 0 \/ args.ncol = 0)
    => pc = "return" /\ cbb = <<>> /\ io = 0

\* C13 (as claimed): when the grid passed to parse_hds or parse_cbb is not the
\* grid recorded in the records of the file (nrow and ncol swapped, say), the
\* call never reaches its return: it fails instead of returning arrays.
C13_LayoutDeviationFails ==
    (/\ fn \in {"hds", "cbb"} /\ Scanning /\ ValidFile /\ NRecs > 0
     /\ <<args.nlay, args.nrow, args.ncol>> # written.dims
     /\ \E k \in 1..NRecs :
           <<written.recs[k].s1, written.recs[k].s2>> # <<args.ncol, args.nrow>>)
    => pc # "return"

RecordAt(b) == IF b \in RecordStarts THEN CHOOSE k \in 1..NRecs : StartOf(k) = b ELSE 0
\* a non-empty unstructured head file whose first record is not layer 1
FirstNotLayerOne == written.fmt = "hdsu" /\ NRecs > 0 /\ written.recs[1].s3 # 1

\* C16: in parse_hdsu the header probe empties the accumulator when the
\* record has ilay = 1 and leaves it as it was otherwise, whatever the
\* time-step key; a record after the first with ilay # 1 stores under its own
\* key what the record before it stored (under that record's key, the same
\* or not) followed by its own payload; and on a file whose first record has
\* ilay # 1 the call never returns: it ends in an exception, an unbound
\* accumulator when that record is whole, and nothing was stored.
C16_ResetOnlyOnLayerOne ==
    [][/\ (pc = "loop" /\ fn = "hdsu" /\ pc' = "read") =>
            /\ meta'.ilay = written.recs[RecordAt(offset)].s3
            /\ h' = IF meta'.ilay = 1 THEN EmptyArray ELSE h
       /\ (pc = "read" /\ fn = "hdsu" /\ pc' = "loop") =>
            LET k == RecordAt(offset)
                key == <<written.recs[k].kper, written.recs[k].kstp>>
                before == <<written.recs[k - 1].kper, written.recs[k - 1].kstp>>
            IN  /\ k >= 1
                /\ h'.data = h.data \o written.recs[k].data
                /\ DictGet(HDS', key) = h'
                /\ (k > 1 /\ written.recs[k].s3 # 1) =>
                      DictGet(HDS', key).data = DictGet(HDS, before).data \o written.recs[k].data
       /\ (fn = "hdsu" /\ Scanning /\ FirstNotLayerOne) =>
            /\ pc # "return" /\ pc' # "return"
            /\ HDS = <<>>
            /\ (pc' = "idle") => ret'.kind = "raise" /\ ret'.value = <<>>
            /\ (pc = "raise" /\ written.recs[1].s2 >= written.recs[1].s1
                  /\ fileLen >= StartOf(2)) => exc = "UnboundLocalError"]_vars
C16_Witness ==
    /\ pc = "loop" /\ fn = "hdsu" /\ NRecs >= 2
    /\ offset = StartOf(3)
    /\ written.recs[1].s3 = 1 /\ written.recs[2].s3 = 2
    /\ <<written.recs[1].kper, written.recs[1].kstp>> # <<meta.kper, meta.kstp>>
    /\ DictGet(HDS, <<meta.kper, meta.kstp>>).data
         = written.recs[1].data \o written.recs[2].data
    /\ Len(HDS) = 2

\* C15: every call ends. An iteration of a scan loop that does not fail is
\* back at the loop head with the offset moved on by at least the size of a
\* header, 44 bytes in the head decoders and 36 in the budget decoders (in
\* parse_hds by nlay * (44 + 4 * nrow * ncol), nlay being 1 or more there); the
\* steps inside an iteration go forward only; and every call that was entered
\* comes back to its caller, with a value or an exception.
C15_Terminates ==
    /\ [][/\ (fn = "hds" /\ pc = "loop" /\ pc' = "loop") =>
               /\ args.nlay >= 1
               /\ offset' = offset + args.nlay * (44 + 4 * args.nrow * args.ncol)
               /\ offset' >= offset + 44
          /\ (fn = "cbb" /\ pc = "loop" /\ pc' = "loop") => offset' >= offset + 36
          /\ (fn = "hdsu" /\ pc = "loop" /\ pc' = "read") =>
               offset' = offset /\ meta'.at = offset
          /\ (fn = "hdsu" /\ pc = "read") =>
               /\ pc' \in {"loop", "raise"}
               /\ pc' = "loop" => meta.at = offset /\ offset' >= offset + 44
          /\ (fn = "cbbu" /\ pc = "loop" /\ pc' = "read") =>
               offset' = offset /\ meta'.at = offset
          /\ (fn = "cbbu" /\ pc = "read") =>
               /\ pc' \in {"emit", "raise"}
               /\ pc' = "emit" => meta.at = offset /\ offset' >= offset + 36
          /\ (fn = "cbbu" /\ pc = "emit") =>
               pc' = "loop" /\ offset' = offset /\ offset >= meta.at + 36
          /\ (fn # "" /\ pc = "loop") =>
               /\ offset < file_size => pc' \in {"loop", "read", "raise"}
               /\ offset >= file_size => pc' = "return"]_vars
    /\ (fn # "") ~> (pc = "idle" /\ ret.kind \in {"value", "raise"})
C15_Witness ==
    /\ pc = "idle" /\ calls >= 1
    /\ ret.kind = "value" /\ ret.fn = "hdsu"
    /\ NRecs = MaxGroups * MaxLayers
    /\ offset = file_size /\ file_size >= 44 * NRecs

====
